---- MODULE Spec2Model ----
(***************************************************************************)
(* Calendar event lifecycle of icloud_mcp/calendar.py: create_event,        *)
(* update_event and delete_event against the CalDAV store, each followed by *)
(* the per-attendee iTIP dispatch (_send_calendar_invitation).              *)
(*                                                                         *)
(* One object address of the store is followed.  Every remote call          *)
(* (add_event, load, PUT, delete, one dispatch) is one step and may succeed *)
(* or raise.  An optional Python value is a sequence of length 0 (None) or  *)
(* 1 (the value).  The handlers are coroutines that never await, so one     *)
(* server process runs its invocations one after the other: Spec has one    *)
(* invocation in flight at a time.                                          *)
(*                                                                         *)
(* Three parts of the handlers are also run on their own, each from inputs  *)
(* drawn from bounded sets while the lifecycle stays idle:                  *)
(*   SpecPatch  update_event's patch of the loaded object;                  *)
(*   SpecSend   one run of _send_calendar_invitation: the augmentation of   *)
(*              the payload text, the SMTP session, the archival appends;   *)
(*   SpecList   list_events' search loop and the calendar create_event      *)
(*              writes to.                                                  *)
(***************************************************************************)
EXTENDS Integers, Sequences, FiniteSets, TLC

\* ---------------------------------------------------------------- bounds
MaxAttendees == 2
MaxCalendars == 2
MaxEvents == 2
MaxCalls == 3
MaxLen == 3

\* ------------------------------------------------------------- value sets
Addrs == {"a@x", "b@x"}
Summaries == {"S1", "S2"}
Uids == {"u1", "u2"}
Times == {"T1", "T2"}
Texts == {"X1", "X2"}

\* The object address the model follows, and any other address of the store.
EventUrl == "e1"
OtherUrl == "e2"
Procs == {"p1", "p2"}

None == <<>>
Some(v) == <<v>>
IsNone(o) == o = <<>>
Val(o) == o[1]

SeqsUpTo(S, n) == UNION {[1..k -> S] : k \in 0..n}
AttendeeLists == SeqsUpTo(Addrs, MaxAttendees)
Range(s) == {s[i] : i \in 1..Len(s)}

\* The calendar object: the properties of the VEVENT that the handlers read and
\* write (UID, SEQUENCE, DTSTART, DTEND, SUMMARY, the optional DESCRIPTION and
\* LOCATION, the ATTENDEE lines in order).
Payload(uid, summary, dtstart, dtend, description, location, attendees) ==
  [uid |-> uid, sequence |-> 0, summary |-> summary, dtstart |-> dtstart,
   dtend |-> dtend, description |-> description, location |-> location,
   attendees |-> attendees]
NoPayload == Payload("", "", "", "", None, None, <<>>)

VARIABLES
  active,        \* the invocations that may run
  store,         \* the object at the followed address: None or Some(payload)
  pc,            \* per invocation: the next remote call
  args,          \* per invocation: the tool call's arguments
  vevent,        \* update_event: the loaded object (event.vobject_instance)
  attendee_list, \* the list the dispatch loop iterates
  ical_data,     \* the payload handed to every dispatch: None or Some(payload)
  next_i,        \* index into attendee_list of the next dispatch
  log,           \* per invocation: its remote calls so far, in order
  result,        \* per invocation: None, or what the call returned / raised
  patch_run,     \* SpecPatch: one application of update_event's patch
  send_run,      \* SpecSend: one run of _send_calendar_invitation
  list_run,      \* SpecList: one run of list_events / of the calendar choice
  uid_run,       \* SpecUid: the UIDs built by successive create_event calls
  window_run,    \* SpecWindow: the search window of one list_events call
  render_run     \* SpecRender: one free-text value rendered by create_event

callVars == <<active, store, pc, args, vevent, attendee_list, ical_data, next_i, log, result>>
pureVars == <<uid_run, window_run, render_run>>
auxVars == <<patch_run, send_run, list_run, pureVars>>
vars == <<callVars, auxVars>>

\* The arguments of a tool call (None: not supplied), with the UID that
\* create_event builds from its clock reading.
NoArgs ==
  [op |-> "none", event_id |-> "", uid |-> "", summary |-> None, start |-> None,
   end |-> None, description |-> None, location |-> None, attendees |-> None]

\* One remote call of an invocation, as it appears in its log.  A dispatch
\* also records how many send_message calls its SMTP session made.
StoreCall(kind, ok, url, payload) ==
  [kind |-> kind, ok |-> ok, url |-> url, to |-> "", method |-> "",
   payload |-> payload, sends |-> 0]
DispatchCall(o, to, method, payload) ==
  [kind |-> "dispatch", ok |-> o.ok, url |-> "", to |-> to, method |-> method,
   payload |-> payload, sends |-> o.sends]

\* What the handler hands back: the record it returns (its attendees field),
\* or the exception it raises (server.py turns that into an error record).
Returned(attendees) == Some([status |-> "ok", attendees |-> attendees])
Raised == Some([status |-> "error", attendees |-> <<>>])

Idle == [at |-> "idle"]

\* No pure part is being run.
PureIdle == uid_run = Idle /\ window_run = Idle /\ render_run = Idle

\* The three handler parts that are run on their own are not running.
PartsIdle == patch_run = Idle /\ send_run = Idle /\ list_run = Idle

\* No tool call is running and the followed address is empty.
CallsIdle ==
  /\ store = None
  /\ pc = [p \in Procs |-> "idle"]
  /\ args = [p \in Procs |-> NoArgs]
  /\ vevent = [p \in Procs |-> None]
  /\ attendee_list = [p \in Procs |-> <<>>]
  /\ ical_data = [p \in Procs |-> None]
  /\ next_i = [p \in Procs |-> 1]
  /\ log = [p \in Procs |-> <<>>]
  /\ result = [p \in Procs |-> None]

Init ==
  /\ active = {"p1"}
  /\ CallsIdle
  /\ patch_run = Idle /\ send_run = Idle /\ list_run = Idle
  /\ PureIdle

\* ------------------------------------------------------------ pure parts

\* Python truthiness of an optional string: None and "" are both false.
Truthy(o) == ~IsNone(o) /\ Val(o) # ""

\* `attendees or []` / `if attendees:` of create_event.
Supplied(a) == IF IsNone(a.attendees) THEN <<>> ELSE Val(a.attendees)

\* `if description:` / `if location:` of create_event: the property is written
\* only for a non-empty value.
WhenTruthy(o) == IF Truthy(o) THEN o ELSE None

\* create_event's rendering: UID, DTSTART, DTEND, SUMMARY, SEQUENCE:0, the
\* optional DESCRIPTION and LOCATION, then one ATTENDEE line per entry of the
\* supplied list, in order.
RenderNew(a) ==
  Payload(a.uid, Val(a.summary), Val(a.start), Val(a.end),
          WhenTruthy(a.description), WhenTruthy(a.location), Supplied(a))

\* update_event's patch of the single-valued properties: summary, start and
\* end are applied when truthy (`if summary:`), description and location when
\* not None (the property is added when the object lacks it).
PatchScalars(v, a) ==
  [v EXCEPT !.summary     = IF Truthy(a.summary) THEN Val(a.summary) ELSE @,
            !.dtstart     = IF Truthy(a.start) THEN Val(a.start) ELSE @,
            !.dtend       = IF Truthy(a.end) THEN Val(a.end) ELSE @,
            !.description = IF IsNone(a.description) THEN @ ELSE a.description,
            !.location    = IF IsNone(a.location) THEN @ ELSE a.location]

\* Faulty variant of ApplyPatch: the existing ATTENDEE lines are not removed.
ApplyPatch_AppendAttendees(v, a) ==
  [PatchScalars(v, a) EXCEPT
     !.attendees = IF IsNone(a.attendees) THEN @
                   ELSE LET all == @ \o Val(a.attendees)
                        IN [i \in 1..(IF Len(all) < MaxAttendees THEN Len(all)
                                       ELSE MaxAttendees) |-> all[i]]]

\* Faulty variant of ApplyPatch: `if attendees:` in place of `is not None`.
ApplyPatch_EmptyIsOmitted(v, a) ==
  [PatchScalars(v, a) EXCEPT
     !.attendees = IF IsNone(a.attendees) \/ Val(a.attendees) = <<>>
                   THEN @ ELSE Val(a.attendees)]

\* Faulty variant of ApplyPatch: every update raises SEQUENCE by one.
ApplyPatch_BumpSequence(v, a) ==
  [PatchScalars(v, a) EXCEPT
     !.attendees = IF IsNone(a.attendees) THEN @ ELSE Val(a.attendees),
     !.sequence = @ + 1]

\* update_event's patch of the loaded object: the single-valued properties,
\* then attendees when supplied (the existing ATTENDEE lines are removed
\* first).  UID and SEQUENCE are not written.
ApplyPatch(v, a) ==
  [PatchScalars(v, a) EXCEPT
     !.attendees = IF IsNone(a.attendees) THEN @ ELSE Val(a.attendees)]

\* Faulty variant of PutUrl: the patched object is stored as a new object.
PutUrl_NewObject(a) == OtherUrl

\* update_event loads from and PUTs to the reference it was given.
LoadUrl(a) == a.event_id
PutUrl(a) == a.event_id

\* The addresses of the object's ATTENDEE lines, in order ("mailto:" stripped).
AttendeeListOf(v) == v.attendees

\* Faulty variant of ShouldNotifyUpdate: every update re-notifies.
ShouldNotifyUpdate_AnyUpdate(a, list) == list # <<>>

\* update_event notifies only when the attendees argument was supplied and the
\* resulting list is not empty.
ShouldNotifyUpdate(a, list) == ~IsNone(a.attendees) /\ list # <<>>

\* delete_event notifies only when attendees and the payload were captured.
ShouldNotifyDelete(list, data) == list # <<>> /\ ~IsNone(data)

\* Faulty variant of Method: delete_event passes REQUEST too.
Method_AlwaysRequest(op) == "REQUEST"

\* The iTIP method each handler passes to the dispatcher.
Method(op) == IF op = "delete" THEN "CANCEL" ELSE "REQUEST"

\* What the handler returns after its last step.
ReturnValue(a, list) ==
  CASE a.op = "create" -> Returned(Supplied(a))
    [] a.op = "update" -> Returned(list)
    [] OTHER           -> Returned(<<>>)

\* --------------------------------------------------------- step helpers

Logged(p, call) == log' = [log EXCEPT ![p] = Append(@, call)]

\* The handler ends: it returns or raises `res` to the caller.
Finish(p, res) ==
  /\ pc' = [pc EXCEPT ![p] = "done"]
  /\ result' = [result EXCEPT ![p] = res]

\* The handler reaches its dispatch loop over `list`, or returns when there is
\* nothing to iterate.
Notify(p, list, data, notify) ==
  /\ attendee_list' = [attendee_list EXCEPT ![p] = list]
  /\ ical_data' = [ical_data EXCEPT ![p] = data]
  /\ next_i' = [next_i EXCEPT ![p] = 1]
  /\ IF notify
       THEN pc' = [pc EXCEPT ![p] = "notify"] /\ UNCHANGED result
       ELSE Finish(p, ReturnValue(args[p], list))

OptAttendees == {None} \cup {Some(l) : l \in AttendeeLists}

\* ------------------------------------------------------------ create_event

\* The tool call arrives: summary is required, attendees is optional.
create_event_call(p) ==
  /\ p \in active /\ pc[p] = "idle"
  /\ \E s \in Summaries, a \in OptAttendees, u \in Uids :
       args' = [args EXCEPT ![p] =
                  [NoArgs EXCEPT !.op = "create", !.uid = u, !.summary = Some(s),
                                 !.start = Some("T1"), !.end = Some("T2"),
                                 !.attendees = a]]
  /\ pc' = [pc EXCEPT ![p] = "create_add"]
  /\ UNCHANGED auxVars
  /\ UNCHANGED <<active, store, vevent, attendee_list, ical_data, next_i, log, result>>

\* The address add_event gives the new object: the followed address when that
\* is free, else another one.
NewUrl == IF IsNone(store) THEN EventUrl ELSE OtherUrl

\* add_event returned: the object is stored, then the loop over `attendees`
\* starts.
create_add_returned(p, data) ==
  /\ store' = IF NewUrl = EventUrl THEN Some(data) ELSE store
  /\ Logged(p, StoreCall("add", TRUE, NewUrl, data))
  /\ Notify(p, Supplied(args[p]), Some(data), Supplied(args[p]) # <<>>)

\* add_event raised: ValueError to the caller.
create_add_raised(p, data) ==
  /\ UNCHANGED <<store, attendee_list, ical_data, next_i>>
  /\ Logged(p, StoreCall("add", FALSE, NewUrl, data))
  /\ Finish(p, Raised)

create_add_event(p) ==
  /\ p \in active /\ pc[p] = "create_add"
  /\ \/ create_add_returned(p, RenderNew(args[p]))
     \/ create_add_raised(p, RenderNew(args[p]))
  /\ UNCHANGED auxVars
  /\ UNCHANGED <<active, args, vevent>>

\* ------------------------------------------------------------ update_event

\* The tool call arrives: every field is optional.
update_event_call(p) ==
  /\ p \in active /\ pc[p] = "idle"
  /\ \E s \in {None} \cup {Some(x) : x \in Summaries \cup {""}}, a \in OptAttendees :
       args' = [args EXCEPT ![p] =
                  [NoArgs EXCEPT !.op = "update", !.event_id = EventUrl,
                                 !.summary = s, !.attendees = a]]
  /\ pc' = [pc EXCEPT ![p] = "update_load"]
  /\ UNCHANGED auxVars
  /\ UNCHANGED <<active, store, vevent, attendee_list, ical_data, next_i, log, result>>

\* event.load(): the object is read, or the load raises (always, when no
\* object is at the address).
update_load(p) ==
  /\ p \in active /\ pc[p] = "update_load"
  /\ \/ /\ ~IsNone(store)
        /\ vevent' = [vevent EXCEPT ![p] = store]
        /\ Logged(p, StoreCall("load", TRUE, LoadUrl(args[p]), Val(store)))
        /\ pc' = [pc EXCEPT ![p] = "update_put"]
        /\ UNCHANGED result
     \/ /\ Logged(p, StoreCall("load", FALSE, LoadUrl(args[p]), NoPayload))
        /\ Finish(p, Raised)
        /\ UNCHANGED vevent
  /\ UNCHANGED auxVars
  /\ UNCHANGED <<active, store, args, attendee_list, ical_data, next_i>>

\* Faulty variant of update_put_returned: the patch is merged into the object
\* as it is in the store now.
update_put_returned_Merge(p, patched) ==
  /\ store' = IF IsNone(store) THEN Some(patched) ELSE Some(ApplyPatch(Val(store), args[p]))
  /\ Logged(p, StoreCall("put", TRUE, PutUrl(args[p]), patched))
  /\ Notify(p, AttendeeListOf(patched), Some(patched),
            ShouldNotifyUpdate(args[p], AttendeeListOf(patched)))

\* Faulty variant of update_put_returned: the dispatches carry the object as
\* it was loaded.
update_put_returned_StalePayload(p, patched) ==
  /\ store' = IF PutUrl(args[p]) = EventUrl THEN Some(patched) ELSE store
  /\ Logged(p, StoreCall("put", TRUE, PutUrl(args[p]), patched))
  /\ Notify(p, AttendeeListOf(patched), vevent[p],
            ShouldNotifyUpdate(args[p], AttendeeListOf(patched)))

\* The PUT returned: the patched object is stored; attendee_list is read back
\* from the patched object; the loop runs when ShouldNotifyUpdate.
update_put_returned(p, patched) ==
  /\ store' = IF PutUrl(args[p]) = EventUrl THEN Some(patched) ELSE store
  /\ Logged(p, StoreCall("put", TRUE, PutUrl(args[p]), patched))
  /\ Notify(p, AttendeeListOf(patched), Some(patched),
            ShouldNotifyUpdate(args[p], AttendeeListOf(patched)))

\* Faulty variant of update_put_raised: the failure is swallowed.
update_put_raised_ThenNotify(p, patched) ==
  /\ UNCHANGED store
  /\ Logged(p, StoreCall("put", FALSE, PutUrl(args[p]), patched))
  /\ Notify(p, AttendeeListOf(patched), Some(patched),
            ShouldNotifyUpdate(args[p], AttendeeListOf(patched)))

\* The PUT raised: Exception to the caller.
update_put_raised(p, patched) ==
  /\ UNCHANGED <<store, attendee_list, ical_data, next_i>>
  /\ Logged(p, StoreCall("put", FALSE, PutUrl(args[p]), patched))
  /\ Finish(p, Raised)

update_put(p) ==
  /\ p \in active /\ pc[p] = "update_put"
  /\ LET patched == ApplyPatch(Val(vevent[p]), args[p])
     IN /\ \/ update_put_returned(p, patched)
           \/ update_put_raised(p, patched)
        /\ vevent' = [vevent EXCEPT ![p] = Some(patched)]
  /\ UNCHANGED auxVars
  /\ UNCHANGED <<active, args>>

\* ------------------------------------------------------------ delete_event

delete_event_call(p) ==
  /\ p \in active /\ pc[p] = "idle"
  /\ args' = [args EXCEPT ![p] = [NoArgs EXCEPT !.op = "delete", !.event_id = EventUrl]]
  /\ pc' = [pc EXCEPT ![p] = "delete_load"]
  /\ UNCHANGED auxVars
  /\ UNCHANGED <<active, store, vevent, attendee_list, ical_data, next_i, log, result>>

\* The try block completed: attendees and payload are captured.
delete_load_returned(p) ==
  /\ ~IsNone(store)
  /\ attendee_list' = [attendee_list EXCEPT ![p] = AttendeeListOf(Val(store))]
  /\ ical_data' = [ical_data EXCEPT ![p] = store]
  /\ Logged(p, StoreCall("load", TRUE, args[p].event_id, Val(store)))
  /\ pc' = [pc EXCEPT ![p] = "delete_delete"]
  /\ UNCHANGED result

\* Faulty variant of delete_load_raised: the failure reaches the caller.
delete_load_raised_Reraise(p) ==
  /\ UNCHANGED <<attendee_list, ical_data>>
  /\ Logged(p, StoreCall("load", FALSE, args[p].event_id, NoPayload))
  /\ Finish(p, Raised)

\* The try block raised (in load(), or in serialize() after the attendees were
\* read): a warning is logged, ical_data stays None, the handler goes on.
delete_load_raised(p) ==
  /\ \E list \in {<<>>} \cup {AttendeeListOf(Val(s)) : s \in {store} \ {None}} :
       attendee_list' = [attendee_list EXCEPT ![p] = list]
  /\ ical_data' = [ical_data EXCEPT ![p] = None]
  /\ Logged(p, StoreCall("load", FALSE, args[p].event_id, NoPayload))
  /\ pc' = [pc EXCEPT ![p] = "delete_delete"]
  /\ UNCHANGED result

delete_load(p) ==
  /\ p \in active /\ pc[p] = "delete_load"
  /\ \/ delete_load_returned(p)
     \/ delete_load_raised(p)
  /\ UNCHANGED auxVars
  /\ UNCHANGED <<active, store, args, vevent, next_i>>

\* What a store delete takes away: the object at the address, if any.
Removed == IF IsNone(store) THEN NoPayload ELSE Val(store)

\* Faulty variant of delete_delete_returned: the object stays in the store.
delete_delete_returned_Keeps(p) ==
  /\ UNCHANGED store
  /\ Logged(p, StoreCall("delete", TRUE, args[p].event_id, Removed))
  /\ Notify(p, attendee_list[p], ical_data[p],
            ShouldNotifyDelete(attendee_list[p], ical_data[p]))

\* Faulty variant of delete_delete_returned: the CANCEL loop goes over the
\* attendees of the object as it is in the store when it is deleted.
delete_delete_returned_Reload(p) ==
  /\ store' = None
  /\ Logged(p, StoreCall("delete", TRUE, args[p].event_id, Removed))
  /\ Notify(p, AttendeeListOf(Removed), Some(Removed),
            ShouldNotifyDelete(AttendeeListOf(Removed), Some(Removed)))

\* event.delete() returned: the object is gone; the CANCEL loop runs when
\* ShouldNotifyDelete.
delete_delete_returned(p) ==
  /\ store' = None
  /\ Logged(p, StoreCall("delete", TRUE, args[p].event_id, Removed))
  /\ Notify(p, attendee_list[p], ical_data[p],
            ShouldNotifyDelete(attendee_list[p], ical_data[p]))

\* Faulty variant of delete_delete_raised: the failure is swallowed.
delete_delete_raised_ThenNotify(p) ==
  /\ UNCHANGED store
  /\ Logged(p, StoreCall("delete", FALSE, args[p].event_id, NoPayload))
  /\ Notify(p, attendee_list[p], ical_data[p],
            ShouldNotifyDelete(attendee_list[p], ical_data[p]))

\* event.delete() raised: nothing catches it.
delete_delete_raised(p) ==
  /\ UNCHANGED <<store, attendee_list, ical_data, next_i>>
  /\ Logged(p, StoreCall("delete", FALSE, args[p].event_id, NoPayload))
  /\ Finish(p, Raised)

delete_delete(p) ==
  /\ p \in active /\ pc[p] = "delete_delete"
  /\ \/ delete_delete_returned(p)
     \/ delete_delete_raised(p)
  /\ UNCHANGED auxVars
  /\ UNCHANGED <<active, args, vevent>>

\* ------------------------------------------------------- the dispatch loop

\* Faulty variant of AfterDispatch: a failed dispatch is re-raised.
AfterDispatch_Reraise(p, ok, last) ==
  /\ UNCHANGED store
  /\ IF ~ok THEN Finish(p, Raised)
     ELSE IF last THEN Finish(p, ReturnValue(args[p], attendee_list[p]))
     ELSE UNCHANGED <<pc, result>>

\* Faulty variant of AfterDispatch: a failed dispatch ends the loop.
AfterDispatch_Break(p, ok, last) ==
  /\ UNCHANGED store
  /\ IF last \/ ~ok THEN Finish(p, ReturnValue(args[p], attendee_list[p]))
     ELSE UNCHANGED <<pc, result>>

\* Faulty variant of AfterDispatch: a failed dispatch removes the stored object.
AfterDispatch_Rollback(p, ok, last) ==
  /\ store' = IF ok THEN store ELSE None
  /\ IF last THEN Finish(p, ReturnValue(args[p], attendee_list[p]))
     ELSE UNCHANGED <<pc, result>>

\* One iteration's try/except around _send_calendar_invitation: whether the
\* dispatch returned (ok) or raised, the failure is only logged; the loop goes
\* to the next entry and the handler returns after the last one.
AfterDispatch(p, ok, last) ==
  /\ UNCHANGED store
  /\ IF last THEN Finish(p, ReturnValue(args[p], attendee_list[p]))
     ELSE UNCHANGED <<pc, result>>

\* The ways one call of _send_calendar_invitation ends, by how far its SMTP
\* session got:
\*   SMTP(), starttls() or login() raised: nothing was transmitted;
\*   send_message() raised, or it returned and quit() raised in the finally
\*   clause: one transmission was made and the call raises;
\*   send_message() and quit() returned: the call returns (whatever the
\*   archival into the sent folder did, its errors are swallowed).
DispatchOutcomes ==
  {[ok |-> FALSE, sends |-> 0], [ok |-> FALSE, sends |-> 1], [ok |-> TRUE, sends |-> 1]}

send_calendar_invitation(p) ==
  /\ p \in active /\ pc[p] = "notify"
  /\ \E o \in DispatchOutcomes :
       /\ Logged(p, DispatchCall(o, attendee_list[p][next_i[p]],
                                 Method(args[p].op), Val(ical_data[p])))
       /\ AfterDispatch(p, o.ok, next_i[p] = Len(attendee_list[p]))
  /\ next_i' = [next_i EXCEPT ![p] = @ + 1]
  /\ UNCHANGED auxVars
  /\ UNCHANGED <<active, args, vevent, attendee_list, ical_data>>

\* ------------------------------------------------------------------ entry

\* require_auth raises before anything else happens.
require_auth_raised(p) ==
  /\ p \in active /\ pc[p] = "idle"
  /\ \E op \in {"create", "update", "delete"} :
       args' = [args EXCEPT ![p] = [NoArgs EXCEPT !.op = op]]
  /\ Finish(p, Raised)
  /\ UNCHANGED auxVars
  /\ UNCHANGED <<active, store, vevent, attendee_list, ical_data, next_i, log>>

\* The invocation is over; the next tool call starts from fresh locals.
next_call(p) ==
  /\ p \in active /\ pc[p] = "done"
  /\ pc' = [pc EXCEPT ![p] = "idle"]
  /\ args' = [args EXCEPT ![p] = NoArgs]
  /\ vevent' = [vevent EXCEPT ![p] = None]
  /\ attendee_list' = [attendee_list EXCEPT ![p] = <<>>]
  /\ ical_data' = [ical_data EXCEPT ![p] = None]
  /\ next_i' = [next_i EXCEPT ![p] = 1]
  /\ log' = [log EXCEPT ![p] = <<>>]
  /\ result' = [result EXCEPT ![p] = None]
  /\ UNCHANGED auxVars
  /\ UNCHANGED <<active, store>>

Next ==
  \/ \E p \in Procs : create_event_call(p)
  \/ \E p \in Procs : create_add_event(p)
  \/ \E p \in Procs : update_event_call(p)
  \/ \E p \in Procs : update_load(p)
  \/ \E p \in Procs : update_put(p)
  \/ \E p \in Procs : delete_event_call(p)
  \/ \E p \in Procs : delete_load(p)
  \/ \E p \in Procs : delete_delete(p)
  \/ \E p \in Procs : send_calendar_invitation(p)
  \/ \E p \in Procs : require_auth_raised(p)
  \/ \E p \in Procs : next_call(p)

Spec == Init /\ [][Next]_vars

\* ===================================== two server processes, one event

\* The stored event both calls address: created with one attendee.
SharedEvent == Payload("u1", "S1", "T1", "T2", None, None, <<"a@x">>)

\* The update_event calls of the race: a new summary, a new attendee list, both
\* or neither.
RaceUpdates ==
  {[NoArgs EXCEPT !.op = "update", !.event_id = EventUrl, !.summary = s,
                  !.attendees = a] :
     s \in {None, Some("S2")}, a \in {None, Some(<<"b@x">>)}}

\* Two server processes, each about to serve one tool call on the stored
\* event.
InitRace ==
  /\ active = Procs
  /\ store = Some(SharedEvent)
  /\ pc = [p \in Procs |-> "idle"]
  /\ args = [p \in Procs |-> NoArgs]
  /\ vevent = [p \in Procs |-> None]
  /\ attendee_list = [p \in Procs |-> <<>>]
  /\ ical_data = [p \in Procs |-> None]
  /\ next_i = [p \in Procs |-> 1]
  /\ log = [p \in Procs |-> <<>>]
  /\ result = [p \in Procs |-> None]
  /\ PartsIdle
  /\ PureIdle

\* An update_event call arrives at process p.
race_update_call(p) ==
  /\ p \in active /\ pc[p] = "idle"
  /\ \E a \in RaceUpdates : args' = [args EXCEPT ![p] = a]
  /\ pc' = [pc EXCEPT ![p] = "update_load"]
  /\ UNCHANGED auxVars
  /\ UNCHANGED <<active, store, vevent, attendee_list, ical_data, next_i, log, result>>

\* A delete_event call arrives at the second process.
race_delete_call(p) == p = "p2" /\ delete_event_call(p)

NextRace ==
  \/ \E p \in Procs : race_update_call(p)
  \/ \E p \in Procs : race_delete_call(p)
  \/ \E p \in Procs : update_load(p)
  \/ \E p \in Procs : update_put(p)
  \/ \E p \in Procs : delete_load(p)
  \/ \E p \in Procs : delete_delete(p)
  \/ \E p \in Procs : send_calendar_invitation(p)

SpecRace == InitRace /\ [][NextRace]_vars

\* ============================================== update_event's patch alone

\* An optional string argument: not supplied, empty, or a value of S.
OptStrings(S) == {None} \cup {Some(x) : x \in S \cup {""}}

\* Objects a load can return: what create_event stored.
LoadedEvents ==
  {RenderNew([NoArgs EXCEPT !.op = "create", !.uid = "u1", !.summary = Some("S1"),
                            !.start = Some("T1"), !.end = Some("T2"),
                            !.description = d, !.location = l,
                            !.attendees = Some(t)]) :
     d \in {None, Some("X1")}, l \in {None, Some("X1")}, t \in {<<>>, <<"a@x">>}}

\* The argument combinations of one update_event call.
PatchArgs ==
  {[NoArgs EXCEPT !.op = "update", !.event_id = EventUrl, !.summary = s,
                  !.start = b, !.end = e, !.description = d, !.location = l,
                  !.attendees = t] :
     s \in OptStrings(Summaries), b \in OptStrings(Times), e \in OptStrings(Times),
     d \in OptStrings(Texts), l \in OptStrings(Texts),
     t \in {None, Some(<<>>), Some(<<"b@x">>)}}

InitPatch ==
  /\ active = {}
  /\ CallsIdle
  /\ patch_run \in {[at |-> "loaded", vevent |-> v, args |-> a, out |-> v] :
                      v \in LoadedEvents, a \in PatchArgs}
  /\ send_run = Idle /\ list_run = Idle
  /\ PureIdle

\* Lines 442-475 run on the loaded object.
patch_apply ==
  /\ patch_run.at = "loaded"
  /\ patch_run' = [patch_run EXCEPT !.at = "patched",
                                    !.out = ApplyPatch(patch_run.vevent, patch_run.args)]
  /\ UNCHANGED <<callVars, send_run, list_run, pureVars>>

NextPatch == patch_apply

SpecPatch == InitPatch /\ [][NextPatch]_vars

\* ===================================================== iCalendar text

\* A text is a sequence of tokens: the line break characters and, between them,
\* one token per content line (property name and value).
Line(name, value) == [name |-> name, value |-> value]
LF == Line("\n", "")
CR == Line("\r", "")
Whitespace == {LF, CR}

\* The organizer address (the authenticated account).
Organizer == "o@x"

\* A summary that contains the word ORGANIZER.
OrganizerWords == {"ORGANIZER sync"}

\* sep.join(lines)
RECURSIVE Join(_, _)
Join(lines, sep) ==
  IF lines = <<>> THEN <<>>
  ELSE IF Len(lines) = 1 THEN lines[1]
  ELSE lines[1] \o sep \o Join(Tail(lines), sep)

\* str.strip()
RECURSIVE LStrip(_)
LStrip(t) == IF t # <<>> /\ t[1] \in Whitespace THEN LStrip(Tail(t)) ELSE t
RECURSIVE RStrip(_)
RStrip(t) ==
  IF t # <<>> /\ t[Len(t)] \in Whitespace THEN RStrip(SubSeq(t, 1, Len(t) - 1)) ELSE t
Strip(t) == RStrip(LStrip(t))

\* str.split('\n')
RECURSIVE Split(_)
Split(t) ==
  IF \A i \in 1..Len(t) : t[i] # LF THEN <<t>>
  ELSE LET k == CHOOSE i \in 1..Len(t) : t[i] = LF /\ \A j \in 1..(i - 1) : t[j] # LF
       IN <<SubSeq(t, 1, k - 1)>> \o Split(SubSeq(t, k + 1, Len(t)))

\* list.insert(k, x): x becomes the element after the first k.
InsertAfter(lines, k, x) ==
  SubSeq(lines, 1, k) \o <<x>> \o SubSeq(lines, k + 1, Len(lines))

\* The content lines of an object, in the order create_event writes them.
EventLines(v) ==
  <<Line("BEGIN", "VCALENDAR"), Line("VERSION", "2.0"),
    Line("PRODID", "-//iCloud MCP//EN"), Line("CALSCALE", "GREGORIAN"),
    Line("BEGIN", "VEVENT"), Line("UID", v.uid), Line("DTSTAMP", "now"),
    Line("DTSTART", v.dtstart), Line("DTEND", v.dtend),
    Line("SUMMARY", v.summary), Line("STATUS", "CONFIRMED"),
    Line("SEQUENCE", "0")>>
  \o (IF IsNone(v.description) THEN <<>> ELSE <<Line("DESCRIPTION", Val(v.description))>>)
  \o (IF IsNone(v.location) THEN <<>> ELSE <<Line("LOCATION", Val(v.location))>>)
  \o [i \in 1..Len(v.attendees) |-> Line("ATTENDEE", v.attendees[i])]
  \o <<Line("END", "VEVENT"), Line("END", "VCALENDAR")>>

\* create_event's ical_data: every line ends with "\n" but the last.
RenderText(v) ==
  Join([i \in 1..Len(EventLines(v)) |-> <<EventLines(v)[i]>>], <<LF>>)

\* vobject's serialize() of update_event and delete_event: every line, the
\* last one included, ends with "\r\n".
Serialize(v) ==
  Join([i \in 1..Len(EventLines(v)) |-> <<EventLines(v)[i], CR, LF>>], <<>>)

\* `'ORGANIZER' in text`: a substring test over the whole text.
MentionsOrganizer(t) ==
  \E i \in 1..Len(t) : t[i].name = "ORGANIZER" \/ t[i].value \in OrganizerWords

\* line.startswith('UID:')
StartsWithUID(line) == line # <<>> /\ line[1].name = "UID"

\* Lines 75-81: METHOD is inserted after the first line when that line is
\* exactly BEGIN:VCALENDAR; otherwise the payload is left as it is.
WithMethod(data, method) ==
  LET ical_lines == Split(Strip(data))
  IN IF ical_lines[1] = <<Line("BEGIN", "VCALENDAR")>>
       THEN Join(InsertAfter(ical_lines, 1, <<Line("METHOD", method)>>), <<LF>>)
       ELSE data

\* Lines 84-91: unless the text mentions ORGANIZER, an ORGANIZER line is
\* inserted after the first line that starts with UID:.
WithOrganizer(text, organizer_email) ==
  IF MentionsOrganizer(text) THEN text
  ELSE LET ical_lines == Split(text)
           uids == {i \in 1..Len(ical_lines) : StartsWithUID(ical_lines[i])}
           first == CHOOSE i \in uids : \A j \in uids : i <= j
       IN Join(IF uids = {} THEN ical_lines
               ELSE InsertAfter(ical_lines, first, <<Line("ORGANIZER", organizer_email)>>),
               <<LF>>)

\* The payload of the calendar part.
Augment(data, method, organizer_email) ==
  WithOrganizer(WithMethod(data, method), organizer_email)

\* ======================================= _send_calendar_invitation alone

Methods == {"REQUEST", "CANCEL"}

\* The objects whose payloads are dispatched: one attendee, a plain summary or
\* one that contains the word ORGANIZER.
SendEvents ==
  {Payload("u1", s, "T1", "T2", None, None, <<"a@x">>) : s \in {"S1"} \cup OrganizerWords}

\* The ical_data arguments: what create_event passes (its own text), what
\* update_event and delete_event pass (the serialization), and payloads that
\* went through the augmentation before.
SendInputs ==
  {[origin |-> "create", data |-> RenderText(v)] : v \in SendEvents}
  \cup {[origin |-> "serialize", data |-> Serialize(v)] : v \in SendEvents}
  \cup {[origin |-> "augmented", data |-> Augment(t, m, Organizer)] :
          t \in {RenderText(v) : v \in SendEvents} \cup {Serialize(v) : v \in SendEvents},
          m \in Methods}

\* config.SENT_FOLDER, and the folders the dispatcher appends to, in order:
\* the configured one, then the alternatives of the except branch.
SentFolder == "config.SENT_FOLDER"
FallbackFolders == <<"Sent", "Sent Items", SentFolder>>
ArchiveFolders == <<SentFolder>> \o FallbackFolders

\* The calls of the try block of the SMTP session, in order.
SmtpTry == <<"starttls", "login", "send_message">>

\* One call on the SMTP or IMAP client, as the run records it.
ClientCall(call, folder, ok) == [call |-> call, folder |-> folder, ok |-> ok]

InitSend ==
  /\ active = {}
  /\ CallsIdle
  /\ send_run \in {[at |-> "start", origin |-> i.origin, data |-> i.data, method |-> m,
                     cal_part |-> <<>>, raising |-> FALSE, folder |-> 1,
                     calls |-> <<>>, result |-> "none",
                     k |-> 1, first_part |-> <<>>] :
                    i \in SendInputs, m \in Methods}
  /\ patch_run = Idle /\ list_run = Idle
  /\ PureIdle

SendStep(at, call, ok, raising, res) ==
  send_run' = [send_run EXCEPT !.at = at, !.calls = Append(@, ClientCall(call, "", ok)),
                               !.raising = raising, !.result = res]

\* Lines 49-97: the message is built; the calendar part carries the augmented
\* payload.
send_build ==
  /\ send_run.at = "start"
  /\ send_run' = [send_run EXCEPT
                    !.at = "smtp_connect",
                    !.cal_part = Augment(send_run.data, send_run.method, Organizer)]
  /\ UNCHANGED <<callVars, patch_run, list_run, pureVars>>

\* Line 100: smtplib.SMTP(...) connects, outside the try block.
smtp_connect ==
  /\ send_run.at = "smtp_connect"
  /\ \/ SendStep("starttls", "connect", TRUE, FALSE, "none")
     \/ SendStep("done", "connect", FALSE, FALSE, "raised")
  /\ UNCHANGED <<callVars, patch_run, list_run, pureVars>>

\* Lines 101-104: starttls, login, send_message; the first one that raises
\* leaves the try block for the finally clause.
smtp_try ==
  /\ \E k \in 1..Len(SmtpTry) :
       /\ send_run.at = SmtpTry[k]
       /\ \/ SendStep(IF k < Len(SmtpTry) THEN SmtpTry[k + 1] ELSE "quit",
                       SmtpTry[k], TRUE, FALSE, "none")
          \/ SendStep("quit", SmtpTry[k], FALSE, TRUE, "none")
  /\ UNCHANGED <<callVars, patch_run, list_run, pureVars>>

\* Lines 105-106: quit() in the finally clause; the pending exception of the
\* try block, or the one quit() raises, leaves the dispatcher.
smtp_quit ==
  /\ send_run.at = "quit"
  /\ \/ IF send_run.raising
           THEN SendStep("done", "quit", TRUE, FALSE, "raised")
           ELSE SendStep("imap_connect", "quit", TRUE, FALSE, "none")
     \/ SendStep("done", "quit", FALSE, FALSE, "raised")
  /\ UNCHANGED <<callVars, patch_run, list_run, pureVars>>

\* Faulty variant of ArchiveFailed: the archival error reaches the caller.
ArchiveFailed_Surfaced == "raised"

\* Lines 129-131: `except Exception: pass` around the whole archival.
ArchiveFailed == "returned"

\* Line 112: _get_imap_client connects and logs in, or raises.
imap_connect ==
  /\ send_run.at = "imap_connect"
  /\ \/ SendStep("append", "imap_connect", TRUE, FALSE, "none")
     \/ SendStep("done", "imap_connect", FALSE, FALSE, ArchiveFailed)
  /\ UNCHANGED <<callVars, patch_run, list_run, pureVars>>

\* Faulty variant of NextFolder: the loop has no break.
NextFolder_NoBreak(i, ok) == IF i < Len(ArchiveFolders) THEN i + 1 ELSE 0

\* Lines 118-127: after the append to folder number i: nothing more after a
\* success; after a failure the next folder, if any (0: no further append).
NextFolder(i, ok) == IF ~ok /\ i < Len(ArchiveFolders) THEN i + 1 ELSE 0

\* Lines 119 and 124: one append of the message to the current folder.
imap_append ==
  /\ send_run.at = "append"
  /\ \E ok \in BOOLEAN :
       LET i == send_run.folder
           last == NextFolder(i, ok) = 0
       IN send_run' = [send_run EXCEPT
                         !.calls = Append(@, ClientCall("append", ArchiveFolders[i], ok)),
                         !.folder = IF last THEN i ELSE NextFolder(i, ok),
                         !.at = IF last THEN "imap_close" ELSE "append"]
  /\ UNCHANGED <<callVars, patch_run, list_run, pureVars>>

\* Lines 128-129: _close_imap_client swallows its own errors; the dispatcher
\* returns None.
imap_close ==
  /\ send_run.at = "imap_close"
  /\ \E ok \in BOOLEAN :
       SendStep("done", "imap_close", ok, FALSE, IF ok THEN "returned" ELSE ArchiveFailed)
  /\ UNCHANGED <<callVars, patch_run, list_run, pureVars>>

\* Faulty variant of LoopPayload: the augmentation is written back, so the
\* next attendee's dispatch starts from the augmented payload.
LoopPayload_Cumulative(data, part) == part

\* Lines 73-74 and 366-385: the dispatcher augments its local ical_with_method;
\* the handler's ical_data string is what it was when the next iteration of the
\* loop passes it.
LoopPayload(data, part) == data

\* Lines 366-385 (create_event; 497-512, 590-604): the dispatch has returned or
\* raised, and the handler's loop calls the dispatcher for the next attendee,
\* number k + 1, with its ical_data and the same method.
send_next_attendee ==
  /\ send_run.at = "done" /\ send_run.k < MaxAttendees
  /\ send_run' = [send_run EXCEPT
                    !.at = "start",
                    !.k = @ + 1,
                    !.data = LoopPayload(@, send_run.cal_part),
                    !.first_part = IF send_run.k = 1 THEN send_run.cal_part ELSE @,
                    !.cal_part = <<>>, !.raising = FALSE, !.folder = 1,
                    !.calls = <<>>, !.result = "none"]
  /\ UNCHANGED <<callVars, patch_run, list_run, pureVars>>

NextSend ==
  \/ send_next_attendee
  \/ send_build
  \/ smtp_connect
  \/ smtp_try
  \/ smtp_quit
  \/ imap_connect
  \/ imap_append
  \/ imap_close

SpecSend == InitSend /\ [][NextSend]_vars

\* ================================== calendar choice and list_events alone

\* Calendar names.  "" is a calendar without a name (cal.name is None or
\* empty); "(!) Tasks" has the warning sign U+26A0 where the model writes (!).
GlyphNames == {"(!) Tasks"}
ReminderNames == {"Reminders"}
CalendarNames == {"", "Work"} \cup GlyphNames \cup ReminderNames

\* The calendars principal.calendars() lists are identified by their position.
Urls(n) == [i \in 1..n |-> i]

\* The condition of the two list comprehensions (207-210, 309-312).
PassesFilter(name) ==
  name # "" /\ name \notin GlyphNames /\ name \notin ReminderNames

EventCalendars(names) ==
  SelectSeq(Urls(Len(names)), LAMBDA u : PassesFilter(names[u]))

\* Lines 199-215 of list_events: the explicit calendar alone; else the
\* calendars that pass the filter, or all of them when none passes.
CalendarsToSearch(calendar_id, names) ==
  IF ~IsNone(calendar_id) THEN <<Val(calendar_id)>>
  ELSE IF EventCalendars(names) = <<>> THEN Urls(Len(names))
  ELSE EventCalendars(names)

\* Lines 301-318 of create_event: the explicit calendar; else the first one
\* that passes the filter; None when a ValueError is raised instead.
CalendarToWrite(calendar_id, names) ==
  IF ~IsNone(calendar_id) THEN calendar_id
  ELSE IF EventCalendars(names) = <<>> THEN None
  ELSE Some(EventCalendars(names)[1])

\* `calendar.name or "Unknown"`: a calendar built from calendar_id has no name.
CalendarLabel(calendar_id, names, u) ==
  IF ~IsNone(calendar_id) \/ names[u] = "" THEN "Unknown" ELSE names[u]

\* The records date_search returns for calendar u.
EventsOf(u, label) == [j \in 1..MaxEvents |-> [id |-> <<u, j>>, calendar |-> label]]

\* Faulty variant of Gathered: a failing record ends the calendar's loop.
Gathered_AbortAtFirstBad(res, events, bad) ==
  res \o SelectSeq(events, LAMBDA e : \A j \in bad : e.id[2] < j)

\* Lines 223-264: each record is loaded and appended inside its own try; the
\* records whose load or parse raises (bad) are skipped.
Gathered(res, events, bad) ==
  res \o SelectSeq(events, LAMBDA e : e.id[2] \notin bad)

InitList ==
  /\ active = {}
  /\ CallsIdle
  /\ list_run \in {[op |-> o, at |-> "choose", calendar_id |-> c, names |-> n,
                     to_search |-> <<>>, k |-> 1, outcomes |-> <<>>, result |-> <<>>,
                     calendar |-> None, writes |-> <<>>, status |-> "none"] :
                    o \in {"list", "create"},
                    c \in {None} \cup {Some(u) : u \in 1..MaxCalendars},
                    n \in SeqsUpTo(CalendarNames, MaxCalendars)}
  /\ patch_run = Idle /\ send_run = Idle
  /\ PureIdle

\* list_events, lines 199-215; with nothing to search the loop is empty and
\* [] is returned.
list_events_choose ==
  /\ list_run.at = "choose" /\ list_run.op = "list"
  /\ LET cals == CalendarsToSearch(list_run.calendar_id, list_run.names)
     IN list_run' = [list_run EXCEPT
                       !.to_search = cals,
                       !.at = IF cals = <<>> THEN "done" ELSE "search",
                       !.status = IF cals = <<>> THEN "returned" ELSE "none"]
  /\ UNCHANGED <<callVars, patch_run, send_run, pureVars>>

\* list_events, lines 218-267, one calendar: date_search raises (always, for
\* an address that is no calendar) and the calendar is skipped, or it returns
\* and every record is loaded in turn; after the last calendar the result is
\* returned.
list_events_search ==
  /\ list_run.at = "search"
  /\ LET u == list_run.to_search[list_run.k]
         label == CalendarLabel(list_run.calendar_id, list_run.names, u)
         last == list_run.k = Len(list_run.to_search)
         After(ok, bad) ==
           [list_run EXCEPT
              !.outcomes = Append(@, [url |-> u, ok |-> ok, bad |-> bad]),
              !.result = IF ok THEN Gathered(@, EventsOf(u, label), bad) ELSE @,
              !.k = @ + 1,
              !.at = IF last THEN "done" ELSE "search",
              !.status = IF last THEN "returned" ELSE "none"]
     IN \/ list_run' = After(FALSE, {})
        \/ /\ u <= Len(list_run.names)
           /\ \E bad \in SUBSET (1..MaxEvents) : list_run' = After(TRUE, bad)
  /\ UNCHANGED <<callVars, patch_run, send_run, pureVars>>

\* create_event, lines 301-318: the calendar is chosen, or ValueError is
\* raised.
create_event_choose ==
  /\ list_run.at = "choose" /\ list_run.op = "create"
  /\ LET cal == CalendarToWrite(list_run.calendar_id, list_run.names)
     IN list_run' = [list_run EXCEPT
                       !.calendar = cal,
                       !.at = IF IsNone(cal) THEN "done" ELSE "add_event",
                       !.status = IF IsNone(cal) THEN "raised" ELSE "none"]
  /\ UNCHANGED <<callVars, patch_run, send_run, pureVars>>

\* create_event, lines 359-364: add_event on the chosen calendar returns (the
\* dispatch loop follows) or raises.
create_event_add ==
  /\ list_run.at = "add_event"
  /\ \E ok \in BOOLEAN :
       list_run' = [list_run EXCEPT
                      !.writes = Append(@, Val(list_run.calendar)),
                      !.at = "done",
                      !.status = IF ok THEN "returned" ELSE "raised"]
  /\ UNCHANGED <<callVars, patch_run, send_run, pureVars>>

NextList ==
  \/ list_events_choose
  \/ list_events_search
  \/ create_event_choose
  \/ create_event_add

SpecList == InitList /\ [][NextList]_vars

\* ============================================== create_event's UID alone

\* Clock readings of datetime.now(): whole seconds and microseconds.
ClockSeconds == {1, 2, 12}
ClockMicros == {0, 3, 23}
ClockReadings == {[sec |-> x, us |-> y] : x \in ClockSeconds, y \in ClockMicros}

\* A reading is not earlier than another one.
NotBefore(r, q) == r.sec > q.sec \/ (r.sec = q.sec /\ r.us >= q.us)

\* str(n) of a natural number: its decimal digits, no padding.
RECURSIVE Digits(_)
Digits(n) ==
  IF n < 10 THEN <<<<"0", "1", "2", "3", "4", "5", "6", "7", "8", "9">>[n + 1]>>
  ELSE Digits(n \div 10) \o Digits(n % 10)

\* Line 326: f"{int(now.timestamp())}{now.microsecond}@icloud-mcp".
NewUid(now) == Digits(now.sec) \o Digits(now.us) \o <<"@icloud-mcp">>

InitUid ==
  /\ active = {}
  /\ CallsIdle
  /\ PartsIdle
  /\ uid_run = [at |-> "running", now |-> [sec |-> 0, us |-> 0], uids |-> <<>>]
  /\ window_run = Idle /\ render_run = Idle

\* One more create_event call of the process reads the clock (not earlier than
\* the reading before) and builds its UID.
uid_create ==
  /\ uid_run.at = "running"
  /\ Len(uid_run.uids) < MaxCalls
  /\ \E now \in ClockReadings :
       /\ NotBefore(now, uid_run.now)
       /\ uid_run' = [uid_run EXCEPT !.now = now, !.uids = Append(@, NewUid(now))]
  /\ UNCHANGED <<callVars, patch_run, send_run, list_run, window_run, render_run>>

NextUid == uid_create

SpecUid == InitUid /\ [][NextUid]_vars

\* ===================================== list_events' search window alone

\* An instant: day number, second of the day, microsecond.
Instant(day, sec, us) == [day |-> day, sec |-> sec, us |-> us]
Days == {1, 2}
TimesOfDay ==
  {[sec |-> 0, us |-> 0], [sec |-> 1, us |-> 0], [sec |-> 82800, us |-> 0],
   [sec |-> 86399, us |-> 999999]}

\* The start_date / end_date strings: "YYYY-MM-DD" (tod is None) or the day
\* followed by a time of day, "YYYY-MM-DDTHH:MM:SS[.ffffff]".
DateStrings ==
  {[day |-> d, tod |-> t] : d \in Days, t \in {None} \cup {Some(x) : x \in TimesOfDay}}

\* len(start_date)
StrLen(str) == IF IsNone(str.tod) THEN 10 ELSE IF Val(str.tod).us = 0 THEN 19 ELSE 26

\* datetime.fromisoformat: a date alone is midnight of that day.
FromIso(str) ==
  IF IsNone(str.tod) THEN Instant(str.day, 0, 0)
  ELSE Instant(str.day, Val(str.tod).sec, Val(str.tod).us)

\* datetime.now() of the call, and now shifted by whole days.
Now == Instant(1, 43200, 0)
PlusDays(t, n) == [t EXCEPT !.day = @ + n]

\* Lines 180-186: the start of the window.
StartBound(start_date) ==
  IF IsNone(start_date) THEN PlusDays(Now, 0 - 90)
  ELSE IF StrLen(Val(start_date)) = 10
    THEN [FromIso(Val(start_date)) EXCEPT !.sec = 0, !.us = 0]
  ELSE FromIso(Val(start_date))

\* Faulty variant of EndBound: a date alone is left at midnight.
EndBound_Midnight(end_date) ==
  IF IsNone(end_date) THEN PlusDays(Now, 365) ELSE FromIso(Val(end_date))

\* Lines 188-195: the end of the window.
EndBound(end_date) ==
  IF IsNone(end_date) THEN PlusDays(Now, 365)
  ELSE IF StrLen(Val(end_date)) = 10
    THEN [FromIso(Val(end_date)) EXCEPT !.sec = 86399, !.us = 999999]
  ELSE FromIso(Val(end_date))

InitWindow ==
  /\ active = {}
  /\ CallsIdle
  /\ PartsIdle
  /\ window_run \in {[at |-> "called", start_date |-> a, end_date |-> b,
                       start |-> Now, end |-> Now] :
                      a, b \in {None} \cup {Some(x) : x \in DateStrings}}
  /\ uid_run = Idle /\ render_run = Idle

\* Lines 179-195: both bounds are parsed.
window_parse ==
  /\ window_run.at = "called"
  /\ window_run' = [window_run EXCEPT !.at = "parsed",
                                      !.start = StartBound(window_run.start_date),
                                      !.end = EndBound(window_run.end_date)]
  /\ UNCHANGED <<callVars, patch_run, send_run, list_run, uid_run, render_run>>

NextWindow == window_parse

SpecWindow == InitWindow /\ [][NextWindow]_vars

\* ================================= create_event's free-text fields alone

\* A free-text value is a sequence of characters; the four characters the
\* escaping names, and two ordinary ones.
BS == "\\"
NL == "\n"
Chars == {BS, NL, ",", ";", "n", "a"}
FreeTexts == SeqsUpTo(Chars, MaxLen)
FreeTextFields == {"summary", "description", "location"}

\* str.replace(c, r) for a single character c.
RECURSIVE Replace(_, _, _)
Replace(str, c, r) ==
  IF str = <<>> THEN <<>>
  ELSE (IF Head(str) = c THEN r ELSE <<Head(str)>>) \o Replace(Tail(str), c, r)

\* Faulty variant of EscapeDescription: the backslash is replaced last.
EscapeDescription_BackslashLast(description) ==
  Replace(Replace(Replace(Replace(description, ",", <<BS, ",">>), ";", <<BS, ";">>),
                  NL, <<BS, "n">>),
          BS, <<BS, BS>>)

\* Line 345: backslash, comma, semicolon, newline, replaced in that order.
EscapeDescription(description) ==
  Replace(Replace(Replace(Replace(description, BS, <<BS, BS>>), ",", <<BS, ",">>),
                  ";", <<BS, ";">>),
          NL, <<BS, "n">>)

\* Line 348: backslash, comma, semicolon; a newline is left as it is.
EscapeLocation(location) ==
  Replace(Replace(Replace(location, BS, <<BS, BS>>), ",", <<BS, ",">>), ";", <<BS, ";">>)

\* The value as it is written after "SUMMARY:", "DESCRIPTION:", "LOCATION:";
\* the summary is written as supplied (line 338).
RenderedValue(field, text) ==
  CASE field = "description" -> EscapeDescription(text)
    [] field = "location"    -> EscapeLocation(text)
    [] OTHER                 -> text

\* SUMMARY is always written; DESCRIPTION and LOCATION when truthy.
FieldWritten(field, text) == field = "summary" \/ text # <<>>

\* The number of lines "NAME:value\n" adds to ical_data: one more than the raw
\* newlines in the value.
LinesWritten(field, text) ==
  IF FieldWritten(field, text)
    THEN 1 + Len(SelectSeq(RenderedValue(field, text), LAMBDA c : c = NL))
    ELSE 0

InitRender ==
  /\ active = {}
  /\ CallsIdle
  /\ PartsIdle
  /\ render_run \in {[at |-> "called", field |-> f, text |-> t, out |-> <<>>, lines |-> 0] :
                      f \in FreeTextFields, t \in FreeTexts}
  /\ uid_run = Idle /\ window_run = Idle

\* Lines 338 and 343-349: the field is appended to ical_data.
render_field ==
  /\ render_run.at = "called"
  /\ render_run' = [render_run EXCEPT
                      !.at = "rendered",
                      !.out = RenderedValue(render_run.field, render_run.text),
                      !.lines = LinesWritten(render_run.field, render_run.text)]
  /\ UNCHANGED <<callVars, patch_run, send_run, list_run, uid_run, window_run>>

NextRender == render_field

SpecRender == InitRender /\ [][NextRender]_vars

\* ============================================================== properties

DispatchesOf(l) == SelectSeq(l, LAMBDA e : e.kind = "dispatch")
TosOf(l) == [i \in 1..Len(DispatchesOf(l)) |-> DispatchesOf(l)[i].to]
Has(l, kind, ok) == \E i \in 1..Len(l) : l[i].kind = kind /\ l[i].ok = ok
Issued(l, kind) == \E i \in 1..Len(l) : l[i].kind = kind

\* The primary store mutation of the invocation has succeeded.
PrimaryOk(p) ==
  \/ args[p].op = "create" /\ Has(log[p], "add", TRUE)
  \/ args[p].op = "update" /\ Has(log[p], "put", TRUE)
  \/ args[p].op = "delete" /\ Has(log[p], "delete", TRUE)

\* The attendees delete_event's load captured (none when the load failed).
LoadedAttendees(l) ==
  IF Len(l) >= 1 /\ l[1].kind = "load" /\ l[1].ok THEN l[1].payload.attendees ELSE <<>>

\* The notify list of the invocation, by the delta rules: the supplied list for
\* create and update, the list loaded before removal for delete.
NotifySet(p) ==
  IF args[p].op = "delete" THEN LoadedAttendees(log[p]) ELSE Supplied(args[p])

\* C1: in create_event, once add_event has succeeded the call does not raise and
\* ends by returning the success record that lists every supplied attendee,
\* whichever dispatches fail (all of them included).
C1_CreateReturnsAllAttendees ==
  \A p \in Procs :
    (args[p].op = "create" /\ Has(log[p], "add", TRUE)) =>
      /\ result[p] \in {None, Returned(Supplied(args[p]))}
      /\ pc[p] \in {"notify", "done"}
      /\ pc[p] = "notify" => next_i[p] <= Len(attendee_list[p])
      /\ pc[p] = "done" => result[p] = Returned(Supplied(args[p]))

C1_Witness ==
  \E p \in Procs :
    /\ args[p].op = "create" /\ pc[p] = "done" /\ Has(log[p], "add", TRUE)
    /\ Len(Supplied(args[p])) = 2
    /\ Len(DispatchesOf(log[p])) = 2
    /\ \A i \in 1..2 : ~DispatchesOf(log[p])[i].ok
    /\ result[p] = Returned(Supplied(args[p]))

\* C2: in create_event, update_event and delete_event the dispatch attempts of a
\* call are, in order, one per entry of its notify list (an address listed k
\* times is k entries); an attempt makes at most one transmission, and exactly
\* one when it succeeds; once the primary mutation succeeded the call does not
\* end before every entry had its attempt, whatever attempts failed before it.
C2_OneAttemptPerNotifyEntry ==
  \A p \in Procs :
    LET d == DispatchesOf(log[p])
        tos == TosOf(log[p])
        n == NotifySet(p)
    IN /\ Len(tos) <= Len(n)
       /\ \A i \in 1..Len(tos) : tos[i] = n[i]
       /\ \A i \in 1..Len(d) : d[i].sends <= 1 /\ (d[i].ok => d[i].sends = 1)
       /\ (pc[p] = "done" /\ PrimaryOk(p)) => tos = n

C2_Witness ==
  \E p \in Procs :
    LET d == DispatchesOf(log[p])
    IN /\ pc[p] = "done" /\ PrimaryOk(p)
       /\ Len(d) = 2 /\ ~d[1].ok /\ d[1].to # d[2].to /\ d[2].sends = 1

\* C3: once the primary store mutation of a call has succeeded, no step changes
\* the stored object and every further remote call of the invocation is a
\* dispatch, whether dispatches succeed or fail.
C3_NoStoreCallAfterPrimary ==
  [][\A p \in Procs :
       PrimaryOk(p) =>
         /\ store' = store
         /\ \A i \in (Len(log[p]) + 1)..Len(log'[p]) : log'[p][i].kind = "dispatch"]_vars

C3_Witness ==
  \E p \in Procs :
    /\ args[p].op = "update" /\ pc[p] = "done" /\ PrimaryOk(p)
    /\ \E i \in 1..Len(log[p]) : log[p][i].kind = "dispatch" /\ ~log[p][i].ok
    /\ store = Some(log[p][2].payload)
    /\ Val(store).attendees = Val(args[p].attendees)

C5_DeleteLoadDeleteCancel ==
  \A p \in Procs :
    LET l == log[p]
    IN (args[p].op = "delete" /\ Len(l) >= 1) =>
         /\ l[1].kind = "load"
         /\ l[1].ok =>
              /\ Len(l) >= 2 => l[2].kind = "delete"
              /\ Len(l) <= 2 + Len(l[1].payload.attendees)
              /\ \A i \in 3..Len(l) :
                   /\ l[2].ok /\ IsNone(store)
                   /\ l[i] = DispatchCall(l[i], l[1].payload.attendees[i - 2],
                                          "CANCEL", l[1].payload)
              /\ (pc[p] = "done" /\ l[2].ok) => Len(l) = 2 + Len(l[1].payload.attendees)

C5_Witness ==
  \E p \in Procs :
    LET l == log[p]
    IN /\ args[p].op = "delete" /\ pc[p] = "done" /\ Len(l) = 3
       /\ l[1].kind = "load" /\ l[1].ok /\ Len(l[1].payload.attendees) = 1
       /\ l[2].kind = "delete" /\ l[2].ok
       /\ l[3].kind = "dispatch" /\ l[3].method = "CANCEL"
       /\ IsNone(store)

\* C6 (as claimed): when the store delete fails after the event was loaded,
\* the CANCEL notifications to the loaded attendees are still attempted.
C6_Claimed_CancelAfterFailedDelete ==
  \A p \in Procs :
    (/\ args[p].op = "delete" /\ pc[p] = "done"
     /\ Has(log[p], "load", TRUE) /\ Has(log[p], "delete", FALSE))
      => TosOf(log[p]) = LoadedAttendees(log[p])

\* C6 (amended): when the store delete fails in delete_event, the error reaches
\* the caller and no CANCEL is attempted; the loaded object is still stored.
C6_FailedDeleteRaisesNoCancel ==
  \A p \in Procs :
    (args[p].op = "delete" /\ Has(log[p], "delete", FALSE)) =>
      /\ pc[p] = "done" /\ result[p] = Raised
      /\ DispatchesOf(log[p]) = <<>>
      /\ log[p][1].ok => store = Some(log[p][1].payload)

C6_Witness ==
  \E p \in Procs :
    /\ args[p].op = "delete" /\ pc[p] = "done"
    /\ Has(log[p], "load", TRUE) /\ Has(log[p], "delete", FALSE)
    /\ LoadedAttendees(log[p]) # <<>>
    /\ result[p] = Raised

\* C7 (as claimed): the store delete is issued only after the record has been
\* loaded: never while the load has failed.
C7_Claimed_DeleteOnlyAfterLoaded ==
  \A p \in Procs :
    \A i \in 1..Len(log[p]) :
      (args[p].op = "delete" /\ log[p][i].kind = "delete") =>
        \E j \in 1..(i - 1) : log[p][j].kind = "load" /\ log[p][j].ok

\* C7 (amended): the store delete is issued only after the load attempt, and
\* it is issued whether that attempt succeeded or failed; when the load failed
\* no attendee set was captured for notification and no CANCEL is dispatched.
C7_DeleteAfterLoadAttempt ==
  \A p \in Procs :
    LET l == log[p]
    IN args[p].op = "delete" =>
         /\ \A i \in 1..Len(l) : l[i].kind = "delete" => (i = 2 /\ l[1].kind = "load")
         /\ (pc[p] = "done" /\ Len(l) >= 1) => (Len(l) >= 2 /\ l[2].kind = "delete")
         /\ (Len(l) >= 1 /\ ~l[1].ok) => DispatchesOf(l) = <<>>

C7_Witness ==
  \E p \in Procs :
    LET l == log[p]
    IN /\ args[p].op = "delete" /\ pc[p] = "done" /\ Len(l) = 2
       /\ l[1].kind = "load" /\ ~l[1].ok
       /\ l[2].kind = "delete" /\ l[2].ok
       /\ attendee_list[p] # <<>> /\ IsNone(ical_data[p])
       /\ IsNone(store) /\ result[p] = Returned(<<>>)

\* C8: an update_event call without the attendees argument dispatches nothing,
\* whatever else it changes and whatever attendees the object has, and the
\* attendee list it writes back is the one it loaded.
C8_NoAttendeesArgNoDispatch ==
  \A p \in Procs :
    LET l == log[p]
    IN (args[p].op = "update" /\ IsNone(args[p].attendees)) =>
         /\ DispatchesOf(l) = <<>>
         /\ \A i \in 1..Len(l) :
              l[i].kind = "put" => l[i].payload.attendees = l[1].payload.attendees
         /\ Has(l, "put", TRUE) =>
              (~IsNone(store) /\ Val(store).attendees = l[1].payload.attendees)

C8_Witness ==
  \E p \in Procs :
    LET l == log[p]
    IN /\ args[p].op = "update" /\ IsNone(args[p].attendees) /\ pc[p] = "done"
       /\ Has(l, "put", TRUE)
       /\ l[1].payload.attendees # <<>>
       /\ Val(store).summary # l[1].payload.summary
       /\ result[p] = Returned(l[1].payload.attendees)

\* C9: an update_event call that supplies attendees dispatches with method
\* REQUEST only, to members of the supplied list only, and after a successful
\* PUT to every member of it: present attendees are notified again, attendees
\* the update removed get nothing.
C9_UpdateNotifiesNewSet ==
  \A p \in Procs :
    LET l == log[p]
        d == DispatchesOf(l)
    IN (args[p].op = "update" /\ ~IsNone(args[p].attendees)) =>
         /\ \A i \in 1..Len(d) :
              d[i].method = "REQUEST" /\ d[i].to \in Range(Val(args[p].attendees))
         /\ (pc[p] = "done" /\ Has(l, "put", TRUE)) =>
              /\ Range(TosOf(l)) = Range(Val(args[p].attendees))
              /\ Range(TosOf(l)) = Range(Val(store).attendees)

C9_Witness ==
  \E p \in Procs :
    LET l == log[p]
    IN /\ args[p].op = "update" /\ pc[p] = "done" /\ Has(l, "put", TRUE)
       /\ Range(l[1].payload.attendees) = Addrs
       /\ \E x \in Addrs :
            /\ args[p].attendees = Some(<<x>>)
            /\ TosOf(l) = <<x>>

\* C10: after a successful update_event the stored attendee list is the
\* supplied list when one was supplied (the empty list leaves no attendee and
\* dispatches nothing) and the loaded list when the argument was omitted.
C10_AttendeesReplaced ==
  \A p \in Procs :
    LET l == log[p]
    IN (args[p].op = "update" /\ Has(l, "put", TRUE)) =>
         /\ store = Some(l[2].payload)
         /\ ~IsNone(args[p].attendees) => Val(store).attendees = Val(args[p].attendees)
         /\ args[p].attendees = Some(<<>>) =>
              (Val(store).attendees = <<>> /\ DispatchesOf(l) = <<>>)
         /\ IsNone(args[p].attendees) => Val(store).attendees = l[1].payload.attendees

C10_Witness ==
  \E p \in Procs :
    LET l == log[p]
    IN /\ args[p].op = "update" /\ pc[p] = "done" /\ Has(l, "put", TRUE)
       /\ l[1].payload.attendees # <<>>
       /\ args[p].attendees = Some(<<>>)
       /\ Val(store).attendees = <<>>
       /\ result[p] = Returned(<<>>)

\* The PUTs of an invocation's log.
PutsOf(l) == SelectSeq(l, LAMBDA e : e.kind = "put")

\* C11: in update_event the object keeps its identity: every PUT goes to the
\* reference the object was loaded from (the event_id argument), the payload
\* it writes carries the UID that was loaded, and after a successful PUT the
\* followed address holds that payload; no object is written anywhere else.
C11_UpdateKeepsIdentity ==
  \A p \in Procs :
    args[p].op = "update" =>
      /\ \A i \in 1..Len(log[p]) :
           log[p][i].kind \in {"load", "put"} => log[p][i].url = args[p].event_id
      /\ \A i \in 1..Len(PutsOf(log[p])) :
           /\ log[p][1].kind = "load" /\ log[p][1].ok
           /\ PutsOf(log[p])[i].payload.uid = log[p][1].payload.uid
           /\ PutsOf(log[p])[i].payload.sequence = log[p][1].payload.sequence
      /\ ~Issued(log[p], "add")
      /\ (Has(log[p], "put", TRUE) /\ pc[p] = "done") =>
           store = Some(PutsOf(log[p])[1].payload)

C11_Witness ==
  \E p \in Procs :
    /\ args[p].op = "update" /\ pc[p] = "done" /\ Has(log[p], "put", TRUE)
    /\ Truthy(args[p].summary) /\ ~IsNone(args[p].attendees)
    /\ Val(args[p].summary) # log[p][1].payload.summary
    /\ Val(args[p].attendees) # log[p][1].payload.attendees
    /\ Val(store).uid = log[p][1].payload.uid
    /\ log[p][2].url = log[p][1].url

\* The scalar fields of the patch: argument name and object property.
ScalarFields ==
  {<<"summary", "summary">>, <<"start", "dtstart">>, <<"end", "dtend">>}

\* C12 (as claimed): after the patch, every supplied field (empty or not) has
\* the supplied value and every field not supplied has the loaded value.
C12_Claimed_ExactlySuppliedFields ==
  patch_run.at = "patched" =>
    LET v == patch_run.vevent
        a == patch_run.args
        out == patch_run.out
    IN /\ \A f \in ScalarFields :
            out[f[2]] = IF IsNone(a[f[1]]) THEN v[f[2]] ELSE Val(a[f[1]])
       /\ out.description = IF IsNone(a.description) THEN v.description ELSE a.description
       /\ out.location = IF IsNone(a.location) THEN v.location ELSE a.location
       /\ out.attendees = IF IsNone(a.attendees) THEN v.attendees ELSE Val(a.attendees)
       /\ out.uid = v.uid /\ out.sequence = v.sequence

\* The content lines of a text, in order, line breaks left out.
ContentOf(t) == SelectSeq(t, LAMBDA x : x \notin Whitespace)
HasLine(t, name) == \E i \in 1..Len(t) : t[i].name = name

\* The calendar part of the run has been built.
PartBuilt == send_run.at \notin {"idle", "start"}

\* C13 (as claimed): when the payload handed to the dispatcher already has a
\* METHOD line and an ORGANIZER line, the calendar part is that payload,
\* unchanged.
C13_Claimed_AugmentIdempotent ==
  (PartBuilt /\ HasLine(send_run.data, "METHOD") /\ HasLine(send_run.data, "ORGANIZER"))
    => send_run.cal_part = send_run.data

\* C14 (as claimed): the calendar part built from a handler's payload (LF text
\* of create, CRLF serialization of update and delete) has METHOD:<method> as
\* the line after BEGIN:VCALENDAR and, when the payload had no ORGANIZER
\* property, the ORGANIZER line as the line after UID.
C14_Claimed_MethodAndOrganizerInjected ==
  (PartBuilt /\ send_run.origin \in {"create", "serialize"}) =>
    LET c == ContentOf(send_run.cal_part)
    IN /\ c[1] = Line("BEGIN", "VCALENDAR")
       /\ c[2] = Line("METHOD", send_run.method)
       /\ ~HasLine(send_run.data, "ORGANIZER") =>
            \E k \in 1..(Len(c) - 1) :
              c[k].name = "UID" /\ c[k + 1] = Line("ORGANIZER", Organizer)

CallOk(c, call) == \E i \in 1..Len(c) : c[i].call = call /\ c[i].ok
AppendsOf(c) == SelectSeq(c, LAMBDA x : x.call = "append")

\* The SMTP session delivered the message and ended without raising.
TransportOk == CallOk(send_run.calls, "send_message") /\ CallOk(send_run.calls, "quit")

\* C15: the dispatcher touches the archive store (IMAP connect and login,
\* append, close) only after the SMTP session delivered the message and ended
\* without raising, and from then on the dispatch never raises: it returns
\* whatever the archival calls do.
C15_ArchivalNeverFailsDispatch ==
  send_run.at # "idle" =>
    /\ (\E i \in 1..Len(send_run.calls) :
          send_run.calls[i].call \in {"imap_connect", "append", "imap_close"})
         => TransportOk
    /\ TransportOk => send_run.result # "raised"
    /\ (TransportOk /\ send_run.at = "done") => send_run.result = "returned"

C15_Witness ==
  /\ send_run.at = "done" /\ TransportOk /\ send_run.result = "returned"
  /\ Len(AppendsOf(send_run.calls)) = Len(ArchiveFolders)
  /\ \A i \in 1..Len(send_run.calls) :
       send_run.calls[i].call \in {"append", "imap_close"} => ~send_run.calls[i].ok

\* C16 (as claimed): a dispatch makes at most one append, and no append
\* follows a failed one.
C16_Claimed_SingleAppend ==
  send_run.at # "idle" => Len(AppendsOf(send_run.calls)) <= 1

\* C16: the appends of a dispatch go through the configured folder, 'Sent',
\* 'Sent Items' and the configured folder again, in that order; each append but
\* the last one failed, so nothing is appended after a success and at most one
\* append succeeds; the dispatch does not raise.
C16_AppendsStopAtFirstSuccess ==
  send_run.at # "idle" =>
    LET a == AppendsOf(send_run.calls)
    IN /\ Len(a) <= Len(ArchiveFolders)
       /\ \A i \in 1..Len(a) : a[i].folder = ArchiveFolders[i]
       /\ \A i \in 1..(Len(a) - 1) : ~a[i].ok
       /\ a # <<>> => send_run.result # "raised"

C16_Witness ==
  LET a == AppendsOf(send_run.calls)
  IN /\ send_run.at = "done" /\ send_run.result = "returned"
     /\ Len(a) = 2 /\ ~a[1].ok /\ a[2].ok /\ a[2].folder = "Sent"

NoRepeats(l) == \A i, j \in 1..Len(l) : l[i] = l[j] => i = j

\* C17 (as claimed): the stored object has at most one ATTENDEE line per
\* address, and one call dispatches to each address at most once.
C17_Claimed_UniqueByAddress ==
  /\ ~IsNone(store) => NoRepeats(Val(store).attendees)
  /\ \A p \in Procs : NoRepeats(TosOf(log[p]))

\* The name heuristic as the specification words it: a name is rejected when
\* it contains the warning sign or 'reminder' in any letter case.
LooksLikeReminders(name) == name \in GlyphNames \cup ReminderNames
NotRejected(names) ==
  SelectSeq(Urls(Len(names)), LAMBDA u : ~LooksLikeReminders(names[u]))

\* The calendars on which date_search was called, in order.
SearchedUrls == [i \in 1..Len(list_run.outcomes) |-> list_run.outcomes[i].url]

\* C18 (as claimed): list_events without calendar_id searches exactly the
\* calendars whose name contains neither the warning sign nor 'reminder', or
\* all calendars when that leaves none; with calendar_id, that calendar only.
C18_Claimed_SearchesNonReminderCalendars ==
  (list_run.at = "done" /\ list_run.op = "list") =>
    SearchedUrls =
      IF ~IsNone(list_run.calendar_id) THEN <<Val(list_run.calendar_id)>>
      ELSE IF NotRejected(list_run.names) = <<>> THEN Urls(Len(list_run.names))
      ELSE NotRejected(list_run.names)

\* C19 (as claimed): create_event without calendar_id writes to the first
\* listed calendar whose name the heuristic does not reject; when there is
\* none it raises without any write; with calendar_id it writes to that
\* calendar.
C19_Claimed_WritesToFirstNonReminder ==
  (list_run.at = "done" /\ list_run.op = "create") =>
    IF ~IsNone(list_run.calendar_id) THEN list_run.writes = <<Val(list_run.calendar_id)>>
    ELSE IF NotRejected(list_run.names) = <<>>
      THEN list_run.status = "raised" /\ list_run.writes = <<>>
    ELSE list_run.writes = <<NotRejected(list_run.names)[1]>>

\* The identifiers of the records read successfully, by the outcomes of the
\* searches and loads so far: per searched calendar, in order, the records
\* whose load did not fail, when the search itself did not fail.
RECURSIVE ReadRecords(_)
ReadRecords(os) ==
  IF os = <<>> THEN <<>>
  ELSE LET o == os[Len(os)]
       IN ReadRecords(SubSeq(os, 1, Len(os) - 1)) \o
          (IF o.ok THEN SelectSeq([j \in 1..MaxEvents |-> <<o.url, j>>],
                                  LAMBDA id : id[2] \notin o.bad)
           ELSE <<>>)

\* C20: in list_events a failing record and a failing calendar search are
\* skipped: at every point the gathered records are exactly those read
\* successfully so far (nothing gathered is lost), the call never raises, and
\* it ends by returning them after every calendar to search was tried.
C20_ListToleratesPartialFailure ==
  list_run.op = "list" =>
    /\ [i \in 1..Len(list_run.result) |-> list_run.result[i].id]
         = ReadRecords(list_run.outcomes)
    /\ list_run.status # "raised"
    /\ list_run.at = "done" =>
         /\ list_run.status = "returned"
         /\ SearchedUrls = list_run.to_search

C20_Witness ==
  /\ list_run.op = "list" /\ list_run.at = "done" /\ list_run.status = "returned"
  /\ Len(list_run.outcomes) = 2
  /\ list_run.outcomes[1].ok
  /\ list_run.outcomes[1].bad \notin {{}, 1..MaxEvents}
  /\ ~list_run.outcomes[2].ok
  /\ list_run.result # <<>>

\* C21 (as claimed): the UIDs built by the create_event calls of one process
\* are pairwise distinct and none contains a '.'.
C21_Claimed_UidsDistinct ==
  uid_run.at = "running" =>
    /\ \A i, j \in 1..Len(uid_run.uids) : uid_run.uids[i] = uid_run.uids[j] => i = j
    /\ \A i \in 1..Len(uid_run.uids) : \A k \in 1..Len(uid_run.uids[i]) :
         uid_run.uids[i][k] # "."

\* The invocation's PUT returned in this step.
PutReturns(p) ==
  /\ pc[p] = "update_put"
  /\ Len(log'[p]) = Len(log[p]) + 1
  /\ log'[p][Len(log'[p])].kind = "put" /\ log'[p][Len(log'[p])].ok

\* C22: concurrent update_event calls are not coordinated: whenever a PUT
\* returns, the store holds exactly the payload of that PUT, built from the
\* copy its own call loaded, whatever the store held just before
\* (last-writer-wins).
C22_LastWriterWins ==
  [][\A p \in Procs :
       PutReturns(p) => store' = Some(log'[p][Len(log'[p])].payload)]_vars

\* Both updates succeeded and the summary written by one of them is lost.
C22_Witness ==
  \E p, q \in Procs :
    /\ p # q /\ pc[p] = "done" /\ pc[q] = "done"
    /\ args[p].op = "update" /\ args[q].op = "update"
    /\ Has(log[p], "put", TRUE) /\ Has(log[q], "put", TRUE)
    /\ args[p].summary = Some("S2") /\ IsNone(args[q].summary)
    /\ store = Some(PutsOf(log[q])[1].payload)
    /\ Val(store).summary = "S1"

\* C29 (as claimed): once the store delete of delete_event has succeeded (and
\* nothing is created), the event is absent from the store.
C29_Claimed_AbsentAfterDelete ==
  \A q \in Procs :
    (args[q].op = "delete" /\ Has(log[q], "delete", TRUE)) => IsNone(store)

\* C29: once the store delete of delete_event has succeeded, the event is
\* absent from the store unless the PUT of a concurrent update_event returned
\* after it: then the store holds the payload of that PUT.
C29_AbsentUnlessLaterPut ==
  \A q \in Procs :
    (args[q].op = "delete" /\ Has(log[q], "delete", TRUE)) =>
      \/ IsNone(store)
      \/ \E p \in Procs \ {q} :
           /\ args[p].op = "update" /\ Has(log[p], "put", TRUE)
           /\ store = Some(PutsOf(log[p])[1].payload)

C29_Witness ==
  \E p, q \in Procs :
    /\ args[q].op = "delete" /\ pc[q] = "done" /\ result[q] = Returned(<<>>)
    /\ args[p].op = "update" /\ pc[p] = "done" /\ Has(log[p], "put", TRUE)
    /\ ~IsNone(store)

\* The object the successful store delete of the log took away.
RemovedBy(l) == SelectSeq(l, LAMBDA e : e.kind = "delete" /\ e.ok)[1].payload

\* C30 (as claimed): after delete_event every attendee that was on the stored
\* event when the store delete took effect has a CANCEL dispatch attempt.
C30_Claimed_CancelToStoredAttendees ==
  \A q \in Procs :
    (args[q].op = "delete" /\ pc[q] = "done" /\ Has(log[q], "delete", TRUE)) =>
      \A a \in Range(RemovedBy(log[q]).attendees) :
        \E i \in 1..Len(log[q]) :
          log[q][i].kind = "dispatch" /\ log[q][i].to = a /\ log[q][i].method = "CANCEL"

\* C30: after a successful delete_event whose load succeeded, the CANCEL
\* dispatch attempts go to exactly the attendees that call loaded before the
\* delete; an attendee put on the event by a concurrent update_event between
\* the load and the delete gets none.
C30_CancelToLoadedAttendees ==
  \A q \in Procs :
    (/\ args[q].op = "delete" /\ pc[q] = "done"
     /\ Has(log[q], "load", TRUE) /\ Has(log[q], "delete", TRUE)) =>
      /\ TosOf(log[q]) = log[q][1].payload.attendees
      /\ \A a \in Range(RemovedBy(log[q]).attendees) \ Range(log[q][1].payload.attendees) :
           a \notin Range(TosOf(log[q]))

C30_Witness ==
  \E q \in Procs :
    /\ args[q].op = "delete" /\ pc[q] = "done"
    /\ Has(log[q], "load", TRUE) /\ Has(log[q], "delete", TRUE)
    /\ RemovedBy(log[q]).attendees = <<"b@x">>
    /\ TosOf(log[q]) = <<"a@x">>

\* An instant is not later than another one.
NotAfter(t, u) ==
  \/ t.day < u.day
  \/ t.day = u.day /\ t.sec < u.sec
  \/ t.day = u.day /\ t.sec = u.sec /\ t.us <= u.us

\* The instant lies in the window of the run.
InWindow(t) == NotAfter(window_run.start, t) /\ NotAfter(t, window_run.end)

DateOnly(d) == ~IsNone(d) /\ IsNone(Val(d).tod)
WithTime(d) == ~IsNone(d) /\ ~IsNone(Val(d).tod)

C24_Claimed_OneLinePerField ==
  render_run.at = "rendered" =>
    render_run.lines = IF FieldWritten(render_run.field, render_run.text) THEN 1 ELSE 0

\* Reading an escaped value back, left to right: a backslash takes the next
\* character with it; backslash-n is a newline, any other escaped character is
\* itself.
RECURSIVE Unescape(_)
Unescape(str) ==
  IF str = <<>> THEN <<>>
  ELSE IF Head(str) = BS /\ Len(str) >= 2
    THEN <<IF str[2] = "n" THEN NL ELSE str[2]>> \o Unescape(Tail(Tail(str)))
  ELSE <<Head(str)>> \o Unescape(Tail(str))

\* The escape of one character.
EscapeOf(c) ==
  CASE c = BS  -> <<BS, BS>>
    [] c = ","  -> <<BS, ",">>
    [] c = ";"  -> <<BS, ";">>
    [] c = NL   -> <<BS, "n">>
    [] OTHER    -> <<c>>

RECURSIVE EachEscaped(_)
EachEscaped(str) ==
  IF str = <<>> THEN <<>> ELSE EscapeOf(Head(str)) \o EachEscaped(Tail(str))

\* C25: the rendered description has no raw newline, is the text with each
\* backslash, comma, semicolon and newline replaced by its escape, and reads
\* back as the original text.
C25_DescriptionEscapeInvertible ==
  (render_run.at = "rendered" /\ render_run.field = "description") =>
    /\ \A i \in 1..Len(render_run.out) : render_run.out[i] # NL
    /\ render_run.out = EachEscaped(render_run.text)
    /\ Unescape(render_run.out) = render_run.text

C25_Witness ==
  /\ render_run.at = "rendered" /\ render_run.field = "description"
  /\ render_run.text = <<BS, "n", NL>>
  /\ render_run.out = <<BS, BS, "n", BS, "n">>
  /\ Unescape(render_run.out) = render_run.text

\* C26: update_event never changes SEQUENCE: the stored event has SEQUENCE 0
\* after every call, and every payload an update_event PUTs carries SEQUENCE 0.
C26_SequenceStaysZero ==
  /\ ~IsNone(store) => Val(store).sequence = 0
  /\ \A p \in Procs : \A i \in 1..Len(log[p]) :
       log[p][i].kind = "put" => log[p][i].payload.sequence = 0

C26_Witness ==
  \E p \in Procs :
    /\ args[p].op = "update" /\ pc[p] = "done" /\ Has(log[p], "put", TRUE)
    /\ Truthy(args[p].summary)
    /\ ~IsNone(store) /\ Val(store).summary = Val(args[p].summary)
    /\ Val(store).summary # log[p][1].payload.summary
    /\ Val(store).sequence = 0

\* The store call whose payload the invocation's dispatches must carry: the
\* add of create_event, the PUT of update_event, the load of delete_event.
SourceKind(op) ==
  CASE op = "create" -> "add" [] op = "update" -> "put" [] OTHER -> "load"

LinesNamed(t, name) == Len(SelectSeq(t, LAMBDA x : x \notin Whitespace /\ x.name = name))

\* C28: within one call the augmentation does not accumulate: the calendar
\* part built for the k-th attendee is the one built for the first, so it has
\* no more METHOD or ORGANIZER lines, whatever happened to earlier dispatches.
C28_AugmentationNotCumulative ==
  (PartBuilt /\ send_run.k > 1) =>
    /\ send_run.cal_part = send_run.first_part
    /\ LinesNamed(send_run.cal_part, "METHOD") = LinesNamed(send_run.first_part, "METHOD")
    /\ LinesNamed(send_run.cal_part, "ORGANIZER")
         = LinesNamed(send_run.first_part, "ORGANIZER")

C28_Witness ==
  /\ send_run.at = "done" /\ send_run.k = 2 /\ send_run.origin = "create"
  /\ ~HasLine(send_run.data, "METHOD")
  /\ LinesNamed(send_run.first_part, "METHOD") = 1
  /\ LinesNamed(send_run.cal_part, "METHOD") = 1
  /\ LinesNamed(send_run.cal_part, "ORGANIZER") = 1

====
